---- MODULE Spec2Model ----
(***************************************************************************)
(* Model of the pagos application: the Pago state machine (models.py),     *)
(* the PagoBuilder (domain/builders.py), the processor backends and their  *)
(* factory (infra/factories.py) and the PagoService (services.py).         *)
(*                                                                         *)
(* Strings that the code builds with f-strings are modelled as records     *)
(* [texto, arg]: the fixed text and the sequence of interpolated values.   *)
(* Raw amounts are sequences of one-character strings, so that             *)
(* Decimal(str(monto)) is a parser and not a lookup.                       *)
(***************************************************************************)
EXTENDS Integers, Sequences, FiniteSets, TLC

\* Number of payments the service creates in a behaviour.
MaxPagos == 1
\* Number of calls made on the builder in a behaviour.
MaxCalls == 4
\* Length of the values of PAYMENT_PROCESSOR_TYPE given to the factory.
MaxEnvLen == 4
MaxPeticiones == 2
MaxReloj == 4

(***************************************************************************)
(* models.py: choices and the transition map                               *)
(***************************************************************************)
PENDIENTE == "pendiente"
EN_PROCESO == "en_proceso"
COMPLETADO == "completado"
CANCELADO == "cancelado"

Estado == {PENDIENTE, EN_PROCESO, COMPLETADO, CANCELADO}

TARJETA == "tarjeta"
TRANSFERENCIA == "transferencia"
EFECTIVO == "efectivo"

MetodoPago == {TARJETA, TRANSFERENCIA, EFECTIVO}

\* Mutant: a completed payment can still be cancelled.
TRANSICIONES_VALIDAS_completado_cancelable(estado) ==
    CASE estado = PENDIENTE  -> {EN_PROCESO, CANCELADO}
      [] estado = EN_PROCESO -> {COMPLETADO, CANCELADO}
      [] estado = COMPLETADO -> {CANCELADO}
      [] estado = CANCELADO  -> {}
      [] OTHER               -> {}

\* Mutant: a payment in process can be put in process again.
TRANSICIONES_VALIDAS_reproceso(estado) ==
    CASE estado = PENDIENTE  -> {EN_PROCESO, CANCELADO}
      [] estado = EN_PROCESO -> {EN_PROCESO, COMPLETADO, CANCELADO}
      [] estado = COMPLETADO -> {}
      [] estado = CANCELADO  -> {}
      [] OTHER               -> {}

\* Mutant: a pending payment can be completed directly.
TRANSICIONES_VALIDAS_confirmacion_directa(estado) ==
    CASE estado = PENDIENTE  -> {EN_PROCESO, COMPLETADO, CANCELADO}
      [] estado = EN_PROCESO -> {COMPLETADO, CANCELADO}
      [] estado = COMPLETADO -> {}
      [] estado = CANCELADO  -> {}
      [] OTHER               -> {}

\* TRANSICIONES_VALIDAS.get(estado, []): the allowed targets of a state.
TRANSICIONES_VALIDAS(estado) ==
    CASE estado = PENDIENTE  -> {EN_PROCESO, CANCELADO}
      [] estado = EN_PROCESO -> {COMPLETADO, CANCELADO}
      [] estado = COMPLETADO -> {}
      [] estado = CANCELADO  -> {}
      [] OTHER               -> {}

(***************************************************************************)
(* decimal.Decimal: parsing of a numeric string and the comparison <= 0    *)
(***************************************************************************)
DigitChars == {"0", "1", "2", "3", "4", "5", "6", "7", "8", "9"}

DigitVal(c) ==
    CASE c = "0" -> 0 [] c = "1" -> 1 [] c = "2" -> 2 [] c = "3" -> 3
      [] c = "4" -> 4 [] c = "5" -> 5 [] c = "6" -> 6 [] c = "7" -> 7
      [] c = "8" -> 8 [] c = "9" -> 9

\* Case folding of the letters that occur in "Infinity", "NaN" and "E".
Lower(c) ==
    CASE c = "N" -> "n" [] c = "A" -> "a" [] c = "I" -> "i" [] c = "F" -> "f"
      [] c = "T" -> "t" [] c = "Y" -> "y" [] c = "E" -> "e" [] c = "S" -> "s"
      [] OTHER -> c

LowerSeq(s) == [i \in 1..Len(s) |-> Lower(s[i])]

Positions(s, c) == {i \in 1..Len(s) : s[i] = c}

MinOf(S) == CHOOSE x \in S : \A y \in S : x <= y

AllDigits(s) == \A i \in 1..Len(s) : s[i] \in DigitChars

RECURSIVE StripZeros(_)
\* The coefficient keeps no leading zero, and at least one digit.
StripZeros(ds) ==
    IF Len(ds) > 1 /\ ds[1] = 0 THEN StripZeros(Tail(ds)) ELSE ds

RECURSIVE ToInt(_)
ToInt(cs) ==
    IF cs = <<>> THEN 0
    ELSE 10 * ToInt(SubSeq(cs, 1, Len(cs) - 1)) + DigitVal(cs[Len(cs)])

\* Decimal values: clase "finito" (sign, digits, exp as in as_tuple()),
\* "F" (infinity), "n" (NaN); "error" stands for InvalidOperation raised by
\* the constructor and "None" for Python's None.
DecimalError == [clase |-> "error", sign |-> 0, digits |-> <<>>, exp |-> 0]
DecimalNone == [clase |-> "None", sign |-> 0, digits |-> <<>>, exp |-> 0]

\* Decimal(s) for a string s without whitespace or underscores.
Decimal(s) ==
    LET signed  == Len(s) > 0 /\ s[1] \in {"+", "-"}
        sign    == IF signed /\ s[1] = "-" THEN 1 ELSE 0
        body    == LowerSeq(IF signed THEN Tail(s) ELSE s)
        epos    == Positions(body, "e")
        mant    == IF epos = {} THEN body ELSE SubSeq(body, 1, MinOf(epos) - 1)
        expo    == IF epos = {} THEN <<>>
                   ELSE SubSeq(body, MinOf(epos) + 1, Len(body))
        esigned == Len(expo) > 0 /\ expo[1] \in {"+", "-"}
        edigs   == IF esigned THEN Tail(expo) ELSE expo
        expOk   == epos = {} \/ (Len(edigs) > 0 /\ AllDigits(edigs))
        eval    == IF epos = {} THEN 0
                   ELSE (IF esigned /\ expo[1] = "-" THEN -1 ELSE 1) * ToInt(edigs)
        dots    == Positions(mant, ".")
        ipart   == IF dots = {} THEN mant ELSE SubSeq(mant, 1, MinOf(dots) - 1)
        fpart   == IF dots = {} THEN <<>>
                   ELSE SubSeq(mant, MinOf(dots) + 1, Len(mant))
        numOk   == /\ Cardinality(dots) <= 1
                   /\ AllDigits(ipart) /\ AllDigits(fpart)
                   /\ Len(ipart) + Len(fpart) > 0
                   /\ expOk
        coef    == [i \in 1..(Len(ipart) + Len(fpart)) |->
                       IF i <= Len(ipart) THEN DigitVal(ipart[i])
                       ELSE DigitVal(fpart[i - Len(ipart)])]
    IN  IF body \in {<<"i", "n", "f">>, <<"i", "n", "f", "i", "n", "i", "t", "y">>}
        THEN [clase |-> "F", sign |-> sign, digits |-> <<0>>, exp |-> 0]
        ELSE IF body \in {<<"n", "a", "n">>, <<"s", "n", "a", "n">>}
        THEN [clase |-> "n", sign |-> sign, digits |-> <<>>, exp |-> 0]
        ELSE IF numOk
        THEN [clase |-> "finito", sign |-> sign,
              digits |-> StripZeros(coef), exp |-> eval - Len(fpart)]
        ELSE DecimalError

IsZero(d) == \A i \in 1..Len(d.digits) : d.digits[i] = 0

\* d <= 0 for a Decimal d; "InvalidOperation" when d is a NaN (the
\* comparison signals, and the default context traps the signal).
DecimalLeZero(d) ==
    CASE d.clase = "n"      -> "InvalidOperation"
      [] d.clase = "F"      -> IF d.sign = 1 THEN "True" ELSE "False"
      [] d.clase = "finito" -> IF d.sign = 1 \/ IsZero(d) THEN "True" ELSE "False"

\* Python's None, as the view passes it when the form has no 'monto'.
PyNone == <<"None">>

\* str(monto): a string is itself, None is the four letters of 'None'.
str(monto) == IF monto = PyNone THEN <<"N", "o", "n", "e">> ELSE monto

(***************************************************************************)
(* State                                                                   *)
(***************************************************************************)
VARIABLES
    pagos,      \* the Pago instances built so far, in construction order
    db,         \* the table of Pago rows; a row's pk is its index
    reloj,      \* the clock that auto_now / auto_now_add read at each save
    builder,    \* the PagoBuilder under construction: _monto, _metodo_pago, _errors
    historial,  \* history: the calls made on the builder, with their arguments
    fallidos,   \* history: the instances whose backend call raised
    procesados, \* history: the instances that procesar_pago moved and handed to the backend
    peticiones, \* the view requests in flight: each has loaded its own instance
    last        \* what the last call was, did and returned or raised

vars == <<pagos, db, reloj, builder, historial, fallidos, peticiones, last>>

Msg(texto, arg) == [texto |-> texto, arg |-> arg]

\* The part of the state that a model or service call reads and writes.
World == [pagos |-> pagos, db |-> db, reloj |-> reloj]

\* No exception.
NoRaise == "-"

(***************************************************************************)
(* models.py: fields, save and the guarded transition                      *)
(***************************************************************************)
\* DecimalField(decimal_places=2) as the store keeps it: two fractional digits.
RECURSIVE AdaptDecimal(_)
AdaptDecimal(d) ==
    IF d.clase = "finito" /\ d.exp > -2
    THEN AdaptDecimal([d EXCEPT !.digits = StripZeros(Append(d.digits, 0)),
                                !.exp = d.exp - 1])
    ELSE d

\* Pago(monto=..., metodo_pago=...): the field defaults of an unsaved instance.
\* pk 0 and created_at / updated_at 0 stand for None; referencia is a fresh
\* value (uuid4), drawn as the number of the instance.
Pago(w, monto, metodo_pago) ==
    [pk          |-> 0,
     monto       |-> monto,
     metodo_pago |-> metodo_pago,
     estado      |-> PENDIENTE,
     referencia  |-> Len(w.pagos) + 1,
     created_at  |-> 0,
     updated_at  |-> 0]

Row(pago) ==
    [monto       |-> AdaptDecimal(pago.monto),
     metodo_pago |-> pago.metodo_pago,
     estado      |-> pago.estado,
     referencia  |-> pago.referencia,
     created_at  |-> pago.created_at,
     updated_at  |-> pago.updated_at]

\* DecimalValidator(max_digits=10, decimal_places=2) on a finite Decimal.
DecimalValidator(d) ==
    LET n        == Len(d.digits)
        digits   == IF d.exp >= 0
                    THEN (IF d.digits # <<0>> THEN n + d.exp ELSE n)
                    ELSE (IF -d.exp > n THEN -d.exp ELSE n)
        decimals == IF d.exp >= 0 THEN 0 ELSE -d.exp
    IN  IF digits > 10 THEN <<Msg("monto", <<"max_digits">>)>>
        ELSE IF decimals > 2 THEN <<Msg("monto", <<"max_decimal_places">>)>>
        ELSE IF digits - decimals > 8 THEN <<Msg("monto", <<"max_whole_digits">>)>>
        ELSE <<>>

\* Model.full_clean() of an instance about to be inserted: the messages of
\* the fields that fail their declared validation, <<>> when it passes.
full_clean(w, pago) ==
    (IF pago.monto.clase # "finito" THEN <<Msg("monto", <<"invalid">>)>>
     ELSE DecimalValidator(pago.monto))
    \o (IF pago.metodo_pago \notin MetodoPago
        THEN <<Msg("metodo_pago", <<"invalid_choice">>)>> ELSE <<>>)
    \o (IF pago.estado \notin Estado
        THEN <<Msg("estado", <<"invalid_choice">>)>> ELSE <<>>)
    \o (IF \E k \in 1..Len(w.db) : w.db[k].referencia = pago.referencia
        THEN <<Msg("referencia", <<"unique">>)>> ELSE <<>>)

\* pago.save() of a new instance, appended to pagos as instance Len(pagos)+1:
\* one INSERT; auto_now_add and auto_now read the clock.
save_insert(w, pago) ==
    LET now   == w.reloj + 1
        saved == [pago EXCEPT !.pk = Len(w.db) + 1,
                              !.created_at = now, !.updated_at = now]
    IN  [pagos |-> Append(w.pagos, saved),
         db    |-> Append(w.db, Row(saved)),
         reloj |-> now]

\* Mutant: the save writes every column and sets created_at again.
save_update_todas_las_columnas(w, i) ==
    LET now  == w.reloj + 1
        self == [w.pagos[i] EXCEPT !.updated_at = now, !.created_at = now]
    IN  [pagos |-> [w.pagos EXCEPT ![i] = self],
         db    |-> [w.db EXCEPT ![self.pk] = Row(self)],
         reloj |-> now]

\* Mutant: the UPDATE writes the estado alone and auto_now is not applied.
save_update_sin_auto_now(w, i) ==
    LET self == w.pagos[i]
    IN  [pagos |-> w.pagos,
         db    |-> [w.db EXCEPT ![self.pk] = [@ EXCEPT !.estado = self.estado]],
         reloj |-> w.reloj + 1]

\* self.save(update_fields=['estado', 'updated_at']) of instance i: auto_now
\* refreshes updated_at on the instance, and one UPDATE writes both columns.
save_update(w, i) ==
    LET now  == w.reloj + 1
        self == [w.pagos[i] EXCEPT !.updated_at = now]
    IN  [pagos |-> [w.pagos EXCEPT ![i] = self],
         db    |-> [w.db EXCEPT ![self.pk] =
                       [@ EXCEPT !.estado = self.estado,
                                 !.updated_at = self.updated_at]],
         reloj |-> now]

\* Mutant: the estado is assigned before the target is checked.
_transicionar_asigna_antes(w, i, nuevo_estado) ==
    LET self       == w.pagos[i]
        permitidos == TRANSICIONES_VALIDAS(self.estado)
        w1         == [w EXCEPT !.pagos[i].estado = nuevo_estado]
    IN  IF nuevo_estado \notin permitidos
        THEN [w          |-> w1,
              raised     |-> "ValidationError",
              error      |-> <<Msg("Transicion invalida",
                                   <<self.estado, nuevo_estado>>)>>,
              escrituras |-> 0]
        ELSE [w          |-> save_update(w1, i),
              raised     |-> NoRaise,
              error      |-> <<>>,
              escrituras |-> 1]

\* Mutant: the guard is checked against the stored estado, read again.
_transicionar_relee(w, i, nuevo_estado) ==
    LET self       == [w.pagos[i] EXCEPT !.estado = w.db[w.pagos[i].pk].estado]
        permitidos == TRANSICIONES_VALIDAS(self.estado)
    IN  IF nuevo_estado \notin permitidos
        THEN [w          |-> w,
              raised     |-> "ValidationError",
              error      |-> <<Msg("Transicion invalida",
                                   <<self.estado, nuevo_estado>>)>>,
              escrituras |-> 0]
        ELSE [w          |-> save_update(
                                 [w EXCEPT !.pagos[i].estado = nuevo_estado], i),
              raised     |-> NoRaise,
              error      |-> <<>>,
              escrituras |-> 1]

\* Pago._transicionar(nuevo_estado) on instance i.
_transicionar(w, i, nuevo_estado) ==
    LET self       == w.pagos[i]
        permitidos == TRANSICIONES_VALIDAS(self.estado)
    IN  IF nuevo_estado \notin permitidos
        THEN [w          |-> w,
              raised     |-> "ValidationError",
              error      |-> <<Msg("Transicion invalida",
                                   <<self.estado, nuevo_estado>>)>>,
              escrituras |-> 0]
        ELSE [w          |-> save_update(
                                 [w EXCEPT !.pagos[i].estado = nuevo_estado], i),
              raised     |-> NoRaise,
              error      |-> <<>>,
              escrituras |-> 1]

\* Pago.confirmar_pago()
Pago_confirmar_pago(w, i) == _transicionar(w, i, COMPLETADO)

\* Mutant: cancelar_pago asks for the target of confirmar_pago.
Pago_cancelar_pago_completa(w, i) == _transicionar(w, i, COMPLETADO)

\* Pago.cancelar_pago()
Pago_cancelar_pago(w, i) == _transicionar(w, i, CANCELADO)

\* get_object_or_404(Pago, pk=pk): a new instance read from row pk, appended
\* to pagos; Http404 when there is no such row.
get_object_or_404(w, pk) ==
    IF pk \notin 1..Len(w.db)
    THEN [w |-> w, raised |-> "Http404", pago |-> 0]
    ELSE LET fila == w.db[pk]
             pago == [pk          |-> pk,
                      monto       |-> fila.monto,
                      metodo_pago |-> fila.metodo_pago,
                      estado      |-> fila.estado,
                      referencia  |-> fila.referencia,
                      created_at  |-> fila.created_at,
                      updated_at  |-> fila.updated_at]
         IN  [w      |-> [w EXCEPT !.pagos = Append(@, pago)],
              raised |-> NoRaise,
              pago   |-> Len(w.pagos) + 1]

\* Pago.esta_completado
esta_completado(pago) == pago.estado = COMPLETADO

(***************************************************************************)
(* infra/factories.py: the processor backends and the factory              *)
(***************************************************************************)
\* The backends a PagoService can hold: the two built-in ones and an
\* injected ProcesadorPagoBase whose procesar raises.
ProcesadorPagoReal == "ProcesadorPagoReal"
ProcesadorPagoMock == "ProcesadorPagoMock"
ProcesadorQueFalla == "ProcesadorQueFalla"

Procesadores == {ProcesadorPagoReal, ProcesadorPagoMock, ProcesadorQueFalla}

\* ProcesadorPagoReal.procesar(pago)
ProcesadorPagoReal_procesar(pago) ==
    [exito      |-> TRUE,
     mensaje    |-> Msg("Pago procesado exitosamente (ref: )", <<pago.referencia>>),
     metodo     |-> pago.metodo_pago,
     procesador |-> "REAL",
     gateway_response |->
         [transaction_id |-> [partes |-> <<"TXN-">>, referencia |-> pago.referencia],
          status         |-> "approved"]]

\* Mutant: the simulated transaction id is built like the real one.
ProcesadorPagoMock_procesar_sin_prefijo(pago) ==
    [exito      |-> TRUE,
     mensaje    |-> Msg("[MOCK] Pago simulado correctamente (ref: )",
                        <<pago.referencia>>),
     metodo     |-> pago.metodo_pago,
     procesador |-> "MOCK",
     gateway_response |->
         [transaction_id |-> [partes |-> <<"TXN-">>, referencia |-> pago.referencia],
          status         |-> "simulated"]]

\* ProcesadorPagoMock.procesar(pago)
ProcesadorPagoMock_procesar(pago) ==
    [exito      |-> TRUE,
     mensaje    |-> Msg("[MOCK] Pago simulado correctamente (ref: )",
                        <<pago.referencia>>),
     metodo     |-> pago.metodo_pago,
     procesador |-> "MOCK",
     gateway_response |->
         [transaction_id |-> [partes     |-> <<"MOCK-", "TXN-">>,
                              referencia |-> pago.referencia],
          status         |-> "simulated"]]

\* procesador.procesar(pago): the returned dict in resultado, or the
\* exception the injected backend raises.
procesar(procesador, pago) ==
    CASE procesador = ProcesadorPagoReal ->
             [raised |-> NoRaise, resultado |-> <<ProcesadorPagoReal_procesar(pago)>>]
      [] procesador = ProcesadorPagoMock ->
             [raised |-> NoRaise, resultado |-> <<ProcesadorPagoMock_procesar(pago)>>]
      [] procesador = ProcesadorQueFalla ->
             [raised |-> "ProcesadorError", resultado |-> <<>>]

\* procesador.get_nombre()
get_nombre(procesador) == procesador

\* str.upper() on the letters of the flag values.
Upper(c) ==
    CASE c = "r" -> "R" [] c = "e" -> "E" [] c = "a" -> "A" [] c = "l" -> "L"
      [] c = "m" -> "M" [] c = "o" -> "O" [] c = "c" -> "C" [] c = "k" -> "K"
      [] OTHER -> c

UpperSeq(s) == [i \in 1..Len(s) |-> Upper(s[i])]

\* The values of PAYMENT_PROCESSOR_TYPE that are explored; <<>> stands for
\* the variable not being set.
EnvValues ==
    { <<>>,
      <<"R", "E", "A", "L">>,
      <<"r", "e", "a", "l">>,
      <<"M", "O", "C", "K">>,
      <<"R", "E", "A", "L", "2">> }

\* os.environ.get('PAYMENT_PROCESSOR_TYPE', 'MOCK')
environ_get(env) == IF env = <<>> THEN <<"M", "O", "C", "K">> ELSE env

\* Mutant: the flag is compared as it is written.
crear_sin_upper(env) ==
    LET tipo == environ_get(env)
    IN  IF tipo = <<"R", "E", "A", "L">> THEN ProcesadorPagoReal
        ELSE ProcesadorPagoMock

\* ProcesadorPagoFactory.crear()
crear(env) ==
    LET tipo == UpperSeq(environ_get(env))
    IN  IF tipo = <<"R", "E", "A", "L">> THEN ProcesadorPagoReal
        ELSE ProcesadorPagoMock

\* ProcesadorPagoFactory.crear_mock()
crear_mock == ProcesadorPagoMock

\* ProcesadorPagoFactory.crear_real()
crear_real == ProcesadorPagoReal

(***************************************************************************)
(* domain/builders.py: PagoBuilder                                         *)
(***************************************************************************)
\* PagoBuilder.__init__
PagoBuilder ==
    [_monto |-> DecimalNone, _metodo_pago |-> TARJETA, _errors |-> <<>>]

\* Mutant: an amount that parses clears the errors recorded so far.
con_monto_limpia(b, monto) ==
    LET d == Decimal(str(monto))
    IN  IF d = DecimalError
        THEN [b EXCEPT !._errors = Append(@, Msg("Monto invalido", str(monto)))]
        ELSE [b EXCEPT !._monto = d, !._errors = <<>>]

\* PagoBuilder.con_monto(monto)
con_monto(b, monto) ==
    LET d == Decimal(str(monto))
    IN  IF d = DecimalError
        THEN [b EXCEPT !._errors = Append(@, Msg("Monto invalido", str(monto)))]
        ELSE [b EXCEPT !._monto = d]

\* [choice[0] for choice in Pago.MetodoPago.choices]
metodos_validos == MetodoPago

\* Mutant: an invalid value puts the method back to the default.
con_metodo_pago_reinicia(b, metodo) ==
    IF metodo \notin metodos_validos
    THEN [b EXCEPT !._errors = Append(@, Msg("Metodo de pago invalido", <<metodo>>)),
                   !._metodo_pago = TARJETA]
    ELSE [b EXCEPT !._metodo_pago = metodo]

\* PagoBuilder.con_metodo_pago(metodo)
con_metodo_pago(b, metodo) ==
    IF metodo \notin metodos_validos
    THEN [b EXCEPT !._errors = Append(@, Msg("Metodo de pago invalido", <<metodo>>))]
    ELSE [b EXCEPT !._metodo_pago = metodo]

MONTO_REQUERIDO == Msg("El monto es requerido.", <<>>)
MONTO_MAYOR_A_CERO == Msg("El monto debe ser mayor a cero.", <<>>)

\* Mutant: the amount is compared with < 0, so that zero passes.
_validar_menor_que(b) ==
    LET le == IF b._monto = DecimalNone THEN "None" ELSE DecimalLeZero(b._monto)
        b1 == IF le = "None" THEN [b EXCEPT !._errors = Append(@, MONTO_REQUERIDO)]
              ELSE IF le = "True" /\ b._monto.sign = 1
              THEN [b EXCEPT !._errors = Append(@, MONTO_MAYOR_A_CERO)]
              ELSE b
    IN  IF le = "InvalidOperation"
        THEN [builder |-> b, raised |-> "InvalidOperation", error |-> <<>>]
        ELSE IF b1._errors # <<>>
        THEN [builder |-> b1, raised |-> "ValidationError", error |-> b1._errors]
        ELSE [builder |-> b1, raised |-> NoRaise, error |-> <<>>]

\* Mutant: the ValidationError carries the first message only.
_validar_primer_error(b) ==
    LET le == IF b._monto = DecimalNone THEN "None" ELSE DecimalLeZero(b._monto)
        b1 == IF le = "None" THEN [b EXCEPT !._errors = Append(@, MONTO_REQUERIDO)]
              ELSE IF le = "True"
              THEN [b EXCEPT !._errors = Append(@, MONTO_MAYOR_A_CERO)]
              ELSE b
    IN  IF le = "InvalidOperation"
        THEN [builder |-> b, raised |-> "InvalidOperation", error |-> <<>>]
        ELSE IF b1._errors # <<>>
        THEN [builder |-> b1, raised |-> "ValidationError",
              error |-> <<Head(b1._errors)>>]
        ELSE [builder |-> b1, raised |-> NoRaise, error |-> <<>>]

\* PagoBuilder._validar(): the builder afterwards and the exception raised.
\* The comparison of a NaN amount raises before anything is appended.
_validar(b) ==
    LET le == IF b._monto = DecimalNone THEN "None" ELSE DecimalLeZero(b._monto)
        b1 == IF le = "None" THEN [b EXCEPT !._errors = Append(@, MONTO_REQUERIDO)]
              ELSE IF le = "True"
              THEN [b EXCEPT !._errors = Append(@, MONTO_MAYOR_A_CERO)]
              ELSE b
    IN  IF le = "InvalidOperation"
        THEN [builder |-> b, raised |-> "InvalidOperation", error |-> <<>>]
        ELSE IF b1._errors # <<>>
        THEN [builder |-> b1, raised |-> "ValidationError", error |-> b1._errors]
        ELSE [builder |-> b1, raised |-> NoRaise, error |-> <<>>]

\* PagoBuilder.build(save): pago is the number of the instance returned,
\* 0 when the call raises.
build(b, w, save) ==
    LET v    == _validar(b)
        pago == Pago(w, v.builder._monto, v.builder._metodo_pago)
        fc   == full_clean(w, pago)
    IN  IF v.raised # NoRaise
        THEN [builder |-> v.builder, w |-> w, raised |-> v.raised,
              error |-> v.error, escrituras |-> 0, pago |-> 0]
        ELSE IF ~save
        THEN [builder |-> v.builder, w |-> [w EXCEPT !.pagos = Append(@, pago)],
              raised |-> NoRaise, error |-> <<>>, escrituras |-> 0,
              pago |-> Len(w.pagos) + 1]
        ELSE IF fc # <<>>
        THEN [builder |-> v.builder, w |-> w, raised |-> "ValidationError",
              error |-> fc, escrituras |-> 0, pago |-> 0]
        ELSE [builder |-> v.builder, w |-> save_insert(w, pago),
              raised |-> NoRaise, error |-> <<>>, escrituras |-> 1,
              pago |-> Len(w.pagos) + 1]

(***************************************************************************)
(* services.py: PagoService                                                *)
(***************************************************************************)
\* No backend passed to the constructor.
SinProcesador == "None"

\* PagoService.__init__ / get_pago_service: procesador or Factory.crear()
PagoService(procesador, env) ==
    IF procesador = SinProcesador THEN crear(env) ELSE procesador

\* crear_pago called without its metodo_pago argument.
SinMetodo == "<sin metodo_pago>"

\* Mutant: crear_pago builds without the final validation.
crear_pago_sin_validar(w, monto, metodo_pago) ==
    LET metodo == IF metodo_pago = SinMetodo THEN TARJETA ELSE metodo_pago
        b      == con_metodo_pago(con_monto(PagoBuilder, monto), metodo)
        pago   == Pago(w, b._monto, b._metodo_pago)
        fc     == full_clean(w, pago)
    IN  IF b._errors # <<>> \/ fc # <<>>
        THEN [builder |-> b, w |-> w, raised |-> "ValidationError",
              error |-> b._errors \o fc, escrituras |-> 0, pago |-> 0]
        ELSE [builder |-> b, w |-> save_insert(w, pago),
              raised |-> NoRaise, error |-> <<>>, escrituras |-> 1,
              pago |-> Len(w.pagos) + 1]

\* PagoService.crear_pago(monto, metodo_pago = 'tarjeta')
crear_pago(w, monto, metodo_pago) ==
    LET metodo == IF metodo_pago = SinMetodo THEN TARJETA ELSE metodo_pago
    IN  build(con_metodo_pago(con_monto(PagoBuilder, monto), metodo), w, TRUE)

\* Mutant: a refused transition is swallowed and the backend is invoked.
procesar_pago_sin_propagar(w, procesador, i) ==
    LET t == _transicionar(w, i, EN_PROCESO)
        r == procesar(procesador, t.w.pagos[i])
    IN  [w |-> t.w, raised |-> r.raised, error |-> <<>>,
         escrituras |-> t.escrituras, resultado |-> r.resultado,
         llamado |-> TRUE, visto |-> t.w.db[t.w.pagos[i].pk].estado]

\* Mutant: the backend is invoked before the transition.
procesar_pago_procesa_antes(w, procesador, i) ==
    LET r == procesar(procesador, w.pagos[i])
        t == _transicionar(w, i, EN_PROCESO)
    IN  IF r.raised # NoRaise
        THEN [w |-> w, raised |-> r.raised, error |-> <<>>,
              escrituras |-> 0, resultado |-> <<>>,
              llamado |-> TRUE, visto |-> w.db[w.pagos[i].pk].estado]
        ELSE [w |-> t.w, raised |-> t.raised, error |-> t.error,
              escrituras |-> t.escrituras,
              resultado |-> IF t.raised = NoRaise THEN r.resultado ELSE <<>>,
              llamado |-> TRUE, visto |-> w.db[w.pagos[i].pk].estado]

\* Mutant: a backend failure puts the record back to PENDIENTE.
procesar_pago_con_reversion(w, procesador, i) ==
    LET t  == _transicionar(w, i, EN_PROCESO)
        r  == procesar(procesador, t.w.pagos[i])
        w1 == save_update([t.w EXCEPT !.pagos[i].estado = PENDIENTE], i)
    IN  IF t.raised # NoRaise
        THEN [w |-> t.w, raised |-> t.raised, error |-> t.error,
              escrituras |-> t.escrituras, resultado |-> <<>>,
              llamado |-> FALSE, visto |-> "-"]
        ELSE IF r.raised # NoRaise
        THEN [w |-> w1, raised |-> r.raised, error |-> <<>>,
              escrituras |-> 2, resultado |-> <<>>,
              llamado |-> TRUE, visto |-> t.w.db[t.w.pagos[i].pk].estado]
        ELSE [w |-> t.w, raised |-> r.raised, error |-> <<>>,
              escrituras |-> t.escrituras, resultado |-> r.resultado,
              llamado |-> TRUE, visto |-> t.w.db[t.w.pagos[i].pk].estado]

\* PagoService.procesar_pago(pago) on instance i with the service's backend.
\* llamado: procesar was invoked; visto: the stored estado at that moment.
procesar_pago(w, procesador, i) ==
    LET t == _transicionar(w, i, EN_PROCESO)
        r == procesar(procesador, t.w.pagos[i])
    IN  IF t.raised # NoRaise
        THEN [w |-> t.w, raised |-> t.raised, error |-> t.error,
              escrituras |-> t.escrituras, resultado |-> <<>>,
              llamado |-> FALSE, visto |-> "-"]
        ELSE [w |-> t.w, raised |-> r.raised, error |-> <<>>,
              escrituras |-> t.escrituras, resultado |-> r.resultado,
              llamado |-> TRUE, visto |-> t.w.db[t.w.pagos[i].pk].estado]

\* PagoService.confirmar_pago(pago)
PagoService_confirmar_pago(w, i) == Pago_confirmar_pago(w, i)

\* PagoService.cancelar_pago(pago)
PagoService_cancelar_pago(w, i) == Pago_cancelar_pago(w, i)

(***************************************************************************)
(* Inputs                                                                  *)
(***************************************************************************)
\* The amounts passed to con_monto / crear_pago: None and strings.
Montos ==
    { PyNone,
      <<"a", "b", "c">>,
      <<"1", "5", "0", ".", "0", "0">>,
      <<"0", ".", "0", "0">>,
      <<"-", "5">>,
      <<"N", "a", "N">>,
      <<"I", "n", "f">>,
      <<"1", ".", "2", "3", "4">> }

\* The methods passed to con_metodo_pago / crear_pago.
Metodos == MetodoPago \cup {"bitcoin"}

\* The amounts and methods that the service is called with when its calls
\* are interleaved with the calls on the records it created.
MontosServicio == {PyNone, <<"1", "5", "0", ".", "0", "0">>, <<"-", "5">>}

MetodosServicio == {SinMetodo, TARJETA, EFECTIVO, "bitcoin"}

\* The targets passed to _transicionar.
Destinos == Estado \cup {"reembolsado"}

(***************************************************************************)
(* Actions: one per call                                                   *)
(***************************************************************************)
Call(op, monto, arg) == [op |-> op, monto |-> monto, arg |-> arg]

NoLast ==
    [op |-> "-", pago |-> 0, monto |-> <<>>, arg |-> "", env |-> <<>>,
     raised |-> NoRaise,
     error |-> <<>>, resultado |-> <<>>, escrituras |-> 0,
     llamado |-> FALSE, visto |-> "-"]

Init ==
    /\ pagos = <<>>
    /\ db = <<>>
    /\ reloj = 0
    /\ builder = PagoBuilder
    /\ historial = <<>>
    /\ fallidos = {}
    /\ procesados = {}
    /\ peticiones = {}
    /\ last = NoLast

SetWorld(w) ==
    /\ pagos' = w.pagos
    /\ db' = w.db
    /\ reloj' = w.reloj

\* service.crear_pago(monto, metodo_pago)
CrearPago(monto, metodo_pago) ==
    LET e == crear_pago(World, monto, metodo_pago)
    IN  /\ Len(pagos) < MaxPagos
        /\ SetWorld(e.w)
        /\ last' = [NoLast EXCEPT !.op = "crear_pago", !.pago = e.pago,
                                  !.monto = monto, !.arg = metodo_pago,
                                  !.raised = e.raised, !.error = e.error,
                                  !.escrituras = e.escrituras]
        /\ UNCHANGED <<builder, historial, fallidos, procesados, peticiones>>

\* pago._transicionar(nuevo_estado) on instance i
Transicionar(i, nuevo_estado) ==
    LET e == _transicionar(World, i, nuevo_estado)
    IN  /\ SetWorld(e.w)
        /\ last' = [NoLast EXCEPT !.op = "_transicionar", !.pago = i,
                                  !.arg = nuevo_estado,
                                  !.raised = e.raised, !.error = e.error,
                                  !.escrituras = e.escrituras]
        /\ UNCHANGED <<builder, historial, fallidos, procesados, peticiones>>

\* get_pago_service(procesador).procesar_pago(pago) on instance i
ProcesarPago(i, procesador, env) ==
    LET service == PagoService(procesador, env)
        e       == procesar_pago(World, service, i)
    IN  /\ SetWorld(e.w)
        /\ fallidos' = IF e.llamado /\ e.raised # NoRaise
                       THEN fallidos \cup {i} ELSE fallidos
        /\ procesados' = IF e.llamado /\ e.visto = EN_PROCESO
                         THEN procesados \cup {i} ELSE procesados
        /\ last' = [NoLast EXCEPT !.op = "procesar_pago", !.pago = i,
                                  !.arg = get_nombre(service),
                                  !.raised = e.raised, !.error = e.error,
                                  !.resultado = e.resultado,
                                  !.escrituras = e.escrituras,
                                  !.llamado = e.llamado, !.visto = e.visto]
        /\ UNCHANGED <<builder, historial, peticiones>>

\* service.confirmar_pago(pago) on instance i
ConfirmarPago(i) ==
    LET e == PagoService_confirmar_pago(World, i)
    IN  /\ SetWorld(e.w)
        /\ last' = [NoLast EXCEPT !.op = "confirmar_pago", !.pago = i,
                                  !.raised = e.raised, !.error = e.error,
                                  !.escrituras = e.escrituras]
        /\ UNCHANGED <<builder, historial, fallidos, procesados, peticiones>>

\* service.cancelar_pago(pago) on instance i
CancelarPago(i) ==
    LET e == PagoService_cancelar_pago(World, i)
    IN  /\ SetWorld(e.w)
        /\ last' = [NoLast EXCEPT !.op = "cancelar_pago", !.pago = i,
                                  !.raised = e.raised, !.error = e.error,
                                  !.escrituras = e.escrituras]
        /\ UNCHANGED <<builder, historial, fallidos, procesados, peticiones>>

\* builder.con_monto(monto)
ConMonto(monto) ==
    /\ Len(historial) < MaxCalls
    /\ historial' = Append(historial, Call("con_monto", monto, ""))
    /\ builder' = con_monto(builder, monto)
    /\ last' = [NoLast EXCEPT !.op = "con_monto"]
    /\ UNCHANGED <<pagos, db, reloj, fallidos, procesados, peticiones>>

\* builder.con_metodo_pago(metodo)
ConMetodoPago(metodo) ==
    /\ Len(historial) < MaxCalls
    /\ historial' = Append(historial, Call("con_metodo_pago", <<>>, metodo))
    /\ builder' = con_metodo_pago(builder, metodo)
    /\ last' = [NoLast EXCEPT !.op = "con_metodo_pago"]
    /\ UNCHANGED <<pagos, db, reloj, fallidos, procesados, peticiones>>

\* builder.build(save)
Build(save) ==
    LET e == build(builder, World, save)
    IN  /\ Len(historial) < MaxCalls
        /\ historial' = Append(historial,
                                Call("build", <<>>, IF save THEN "save" ELSE "no save"))
        /\ builder' = e.builder
        /\ SetWorld(e.w)
        /\ last' = [NoLast EXCEPT !.op = "build", !.pago = e.pago,
                                  !.arg = IF save THEN "save" ELSE "no save",
                                  !.raised = e.raised, !.error = e.error,
                                  !.escrituras = e.escrituras]
        /\ UNCHANGED <<fallidos, procesados, peticiones>>

\* The service and the model, called one after another.
Next ==
    \/ \E monto \in MontosServicio, metodo_pago \in MetodosServicio :
          CrearPago(monto, metodo_pago)
    \/ \E i \in 1..Len(pagos), nuevo_estado \in Destinos : Transicionar(i, nuevo_estado)
    \/ \E i \in 1..Len(pagos), procesador \in Procesadores :
          ProcesarPago(i, procesador, <<>>)
    \/ \E i \in 1..Len(pagos), env \in EnvValues :
          ProcesarPago(i, SinProcesador, env)
    \/ \E i \in 1..Len(pagos) : ConfirmarPago(i)
    \/ \E i \in 1..Len(pagos) : CancelarPago(i)

Spec == Init /\ [][Next]_vars

\* The operations of PagoService, called one after another.
NextService ==
    \/ \E monto \in Montos, metodo_pago \in MetodosServicio :
          CrearPago(monto, metodo_pago)
    \/ \E i \in 1..Len(pagos), procesador \in Procesadores :
          ProcesarPago(i, procesador, <<>>)
    \/ \E i \in 1..Len(pagos), env \in EnvValues :
          ProcesarPago(i, SinProcesador, env)
    \/ \E i \in 1..Len(pagos) : ConfirmarPago(i)
    \/ \E i \in 1..Len(pagos) : CancelarPago(i)

SpecService == Init /\ [][NextService]_vars

\* The estado values posted to the admin change form.
EstadosAdmin == Estado \cup {"reembolsado"}

\* PagoAdmin, change form of row pk posted with estado; monto and
\* metodo_pago are posted as the form showed them. ModelAdmin offers every
\* editable field that readonly_fields does not name; a value outside the
\* choices is a form error and nothing is saved; otherwise the object is
\* saved whole, and auto_now reads the clock.
AdminChange(pk, estado) ==
    LET now == reloj + 1
    IN  /\ reloj < MaxReloj
        /\ IF estado \notin Estado
           THEN /\ last' = [NoLast EXCEPT !.op = "admin_change", !.arg = estado,
                                          !.error = <<Msg("estado", <<"invalid_choice">>)>>]
                /\ UNCHANGED <<db, reloj>>
           ELSE /\ db' = [db EXCEPT ![pk] = [@ EXCEPT !.estado = estado,
                                                     !.updated_at = now]]
                /\ reloj' = now
                /\ last' = [NoLast EXCEPT !.op = "admin_change", !.arg = estado,
                                          !.escrituras = 1]
        /\ UNCHANGED <<pagos, builder, historial, fallidos, procesados, peticiones>>

\* The service operations and the admin change form, one after another.
NextAdmin ==
    \/ \E monto \in Montos, metodo_pago \in MetodosServicio :
          CrearPago(monto, metodo_pago)
    \/ \E i \in 1..Len(pagos), procesador \in Procesadores :
          ProcesarPago(i, procesador, <<>>)
    \/ \E i \in 1..Len(pagos) : ConfirmarPago(i)
    \/ \E i \in 1..Len(pagos) : CancelarPago(i)
    \/ \E pk \in 1..Len(db), estado \in EstadosAdmin : AdminChange(pk, estado)

SpecAdmin == Init /\ [][NextAdmin]_vars

\* The letters of the flag values given to the factory.
EnvChars == {"R", "E", "A", "L", "r", "e", "M"}

\* The flag values given to the factory: every string of at most MaxEnvLen
\* letters, <<>> for the variable not being set.
EnvStrings == UNION {[1..n -> EnvChars] : n \in 0..MaxEnvLen}

\* ProcesadorPagoFactory.crear() with PAYMENT_PROCESSOR_TYPE = env
Crear(env) ==
    /\ last = NoLast
    /\ last' = [NoLast EXCEPT !.op = "crear", !.env = env,
                              !.arg = get_nombre(crear(env))]
    /\ UNCHANGED <<pagos, db, reloj, builder, historial, fallidos, procesados, peticiones>>

\* ProcesadorPagoFactory.crear_mock()
CrearMock ==
    /\ last = NoLast
    /\ last' = [NoLast EXCEPT !.op = "crear_mock", !.arg = get_nombre(crear_mock)]
    /\ UNCHANGED <<pagos, db, reloj, builder, historial, fallidos, procesados, peticiones>>

\* ProcesadorPagoFactory.crear_real()
CrearReal ==
    /\ last = NoLast
    /\ last' = [NoLast EXCEPT !.op = "crear_real", !.arg = get_nombre(crear_real)]
    /\ UNCHANGED <<pagos, db, reloj, builder, historial, fallidos, procesados, peticiones>>

\* The factory, called once in a behaviour, with each value of the flag.
NextFactory ==
    \/ \E env \in EnvStrings : Crear(env)
    \/ CrearMock
    \/ CrearReal

SpecFactory == Init /\ [][NextFactory]_vars

\* The views that load a record and call the service on it.
Vistas == {"ProcesarPagoView", "ConfirmarPagoView", "CancelarPagoView"}

\* View.get(request, pk), first statement: the request loads its own instance.
Get(vista, pk) ==
    LET e == get_object_or_404(World, pk)
    IN  /\ Len(pagos) - Len(db) < MaxPeticiones
        /\ SetWorld(e.w)
        /\ peticiones' = IF e.raised = NoRaise
                         THEN peticiones \cup {[vista |-> vista, pago |-> e.pago]}
                         ELSE peticiones
        /\ last' = [NoLast EXCEPT !.op = "get_object_or_404", !.pago = e.pago,
                                  !.arg = vista, !.raised = e.raised]
        /\ UNCHANGED <<builder, historial, fallidos, procesados>>

\* ProcesarPagoView.get, the rest: get_pago_service().procesar_pago(pago)
\* with PAYMENT_PROCESSOR_TYPE = env, the error shown when one is raised.
ProcesarPagoView(req, env) ==
    LET service == PagoService(SinProcesador, env)
        e       == procesar_pago(World, service, req.pago)
    IN  /\ req.vista = "ProcesarPagoView"
        /\ SetWorld(e.w)
        /\ peticiones' = peticiones \ {req}
        /\ last' = [NoLast EXCEPT !.op = "procesar_pago", !.pago = req.pago,
                                  !.arg = get_nombre(service),
                                  !.raised = e.raised, !.error = e.error,
                                  !.resultado = e.resultado,
                                  !.escrituras = e.escrituras,
                                  !.llamado = e.llamado, !.visto = e.visto]
        /\ fallidos' = IF e.llamado /\ e.raised # NoRaise
                       THEN fallidos \cup {req.pago} ELSE fallidos
        /\ procesados' = IF e.llamado /\ e.visto = EN_PROCESO
                         THEN procesados \cup {req.pago} ELSE procesados
        /\ UNCHANGED <<builder, historial>>

\* ConfirmarPagoView.get, the rest: get_pago_service().confirmar_pago(pago)
ConfirmarPagoView(req) ==
    LET e == PagoService_confirmar_pago(World, req.pago)
    IN  /\ req.vista = "ConfirmarPagoView"
        /\ SetWorld(e.w)
        /\ peticiones' = peticiones \ {req}
        /\ last' = [NoLast EXCEPT !.op = "confirmar_pago", !.pago = req.pago,
                                  !.raised = e.raised, !.error = e.error,
                                  !.escrituras = e.escrituras]
        /\ UNCHANGED <<builder, historial, fallidos, procesados>>

\* CancelarPagoView.get, the rest: get_pago_service().cancelar_pago(pago)
CancelarPagoView(req) ==
    LET e == PagoService_cancelar_pago(World, req.pago)
    IN  /\ req.vista = "CancelarPagoView"
        /\ SetWorld(e.w)
        /\ peticiones' = peticiones \ {req}
        /\ last' = [NoLast EXCEPT !.op = "cancelar_pago", !.pago = req.pago,
                                  !.raised = e.raised, !.error = e.error,
                                  !.escrituras = e.escrituras]
        /\ UNCHANGED <<builder, historial, fallidos, procesados>>

\* Concurrent requests: records are created, and each request to a view
\* loads its own instance and later, in any order, calls the service on it.
NextRequests ==
    \/ \E monto \in MontosServicio, metodo_pago \in MetodosServicio :
          CrearPago(monto, metodo_pago)
    \/ \E vista \in Vistas, pk \in 1..(Len(db) + 1) : Get(vista, pk)
    \/ \E req \in peticiones, env \in EnvValues : ProcesarPagoView(req, env)
    \/ \E req \in peticiones : ConfirmarPagoView(req)
    \/ \E req \in peticiones : CancelarPagoView(req)

SpecRequests == Init /\ [][NextRequests]_vars

\* A PagoBuilder driven call by call.
NextBuilder ==
    \/ \E monto \in Montos : ConMonto(monto)
    \/ \E metodo \in Metodos : ConMetodoPago(metodo)
    \/ \E save \in BOOLEAN : Build(save)

SpecBuilder == Init /\ [][NextBuilder]_vars

(***************************************************************************)
(* Properties                                                              *)
(***************************************************************************)
\* The four edges of the payment state machine.
Edges ==
    { <<PENDIENTE, EN_PROCESO>>, <<PENDIENTE, CANCELADO>>,
      <<EN_PROCESO, COMPLETADO>>, <<EN_PROCESO, CANCELADO>> }

Terminal == {COMPLETADO, CANCELADO}

\* The stored estado of instance i.
Stored(i) == db[pagos[i].pk].estado

\* Instance i and its row are as they were before the step.
Untouched(i) ==
    /\ pagos'[i] = pagos[i]
    /\ db'[pagos[i].pk] = db[pagos[i].pk]

InvalidTransition(desde, hacia) ==
    <<Msg("Transicion invalida", <<desde, hacia>>)>>

\* C1: under any sequence of procesar_pago, confirmar_pago, cancelar_pago and
\* direct _transicionar calls, every change of a record's estado, on the
\* instance and in its row, follows one of the four edges, and a record
\* that is COMPLETADO or CANCELADO never changes estado again.
C1_OnlyAllowedEdges ==
    [][\A i \in 1..Len(pagos) :
          /\ pagos'[i].estado # pagos[i].estado
                => <<pagos[i].estado, pagos'[i].estado>> \in Edges
          /\ db'[pagos[i].pk].estado # Stored(i)
                => <<Stored(i), db'[pagos[i].pk].estado>> \in Edges
          /\ pagos[i].estado \in Terminal => pagos'[i].estado = pagos[i].estado
          /\ Stored(i) \in Terminal => db'[pagos[i].pk].estado = Stored(i)]_vars

\* A record reached COMPLETADO through two transitions and a later call on
\* it was refused.
C1_Witness ==
    /\ last.op \in {"procesar_pago", "cancelar_pago", "_transicionar"}
    /\ last.raised = "ValidationError"
    /\ pagos[last.pago].estado = COMPLETADO
    /\ Stored(last.pago) = COMPLETADO

\* C2: _transicionar with a (estado, target) pair that is not one of the
\* four edges - self-transitions and every target from a terminal estado
\* included - raises the invalid-transition error, writes nothing to the
\* store and leaves the record's estado and updated_at as they were.
C2_InvalidTransitionLeavesRecord ==
    [][\A i \in 1..Len(pagos) :
          (/\ last'.op = "_transicionar"
           /\ last'.pago = i
           /\ <<pagos[i].estado, last'.arg>> \notin Edges)
          => /\ last'.raised = "ValidationError"
             /\ last'.error = InvalidTransition(pagos[i].estado, last'.arg)
             /\ last'.escrituras = 0
             /\ db' = db
             /\ reloj' = reloj
             /\ pagos'[i].estado = pagos[i].estado
             /\ pagos'[i].updated_at = pagos[i].updated_at]_vars

\* A self-transition was refused.
C2_Witness ==
    /\ last.op = "_transicionar"
    /\ last.raised = "ValidationError"
    /\ last.arg = pagos[last.pago].estado

\* C3: procesar_pago on a record that is EN_PROCESO, COMPLETADO or CANCELADO
\* raises the invalid-transition error without invoking the backend, and
\* leaves the record and its row unchanged.
C3_ProcessRefusedBeforeBackend ==
    [][\A i \in 1..Len(pagos) :
          (/\ last'.op = "procesar_pago"
           /\ last'.pago = i
           /\ pagos[i].estado \in {EN_PROCESO, COMPLETADO, CANCELADO})
          => /\ last'.raised = "ValidationError"
             /\ last'.error = InvalidTransition(pagos[i].estado, EN_PROCESO)
             /\ ~last'.llamado
             /\ last'.escrituras = 0
             /\ Untouched(i)]_vars

\* procesar_pago was refused on a COMPLETADO record.
C3_Witness ==
    /\ last.op = "procesar_pago"
    /\ last.raised = "ValidationError"
    /\ pagos[last.pago].estado = COMPLETADO

\* C4: procesar_pago on a PENDIENTE record first stores EN_PROCESO and only
\* then invokes the backend (which finds EN_PROCESO in the store); with a
\* built-in backend the result has exito = TRUE; on return the record is
\* EN_PROCESO, never COMPLETADO or CANCELADO.
C4_ProcessMovesThenInvokes ==
    [][\A i \in 1..Len(pagos) :
          (/\ last'.op = "procesar_pago"
           /\ last'.pago = i
           /\ pagos[i].estado = PENDIENTE)
          => /\ last'.llamado
             /\ last'.visto = EN_PROCESO
             /\ last'.escrituras = 1
             /\ pagos'[i].estado = EN_PROCESO
             /\ db'[pagos[i].pk].estado = EN_PROCESO
             /\ last'.arg \in {ProcesadorPagoReal, ProcesadorPagoMock}
                   => /\ last'.raised = NoRaise
                      /\ Len(last'.resultado) = 1
                      /\ last'.resultado[1].exito = TRUE]_vars

\* procesar_pago returned a result for a record that is now EN_PROCESO.
C4_Witness ==
    /\ last.op = "procesar_pago"
    /\ last.raised = NoRaise
    /\ last.resultado # <<>>
    /\ pagos[last.pago].estado = EN_PROCESO

\* C5: confirmar_pago succeeds exactly when the record is EN_PROCESO and
\* leaves it COMPLETADO; cancelar_pago succeeds exactly when the record is
\* PENDIENTE or EN_PROCESO and leaves it CANCELADO; otherwise (so from
\* COMPLETADO and from CANCELADO) each raises the invalid-transition error
\* and changes nothing.
C5_ConfirmCancelGuards ==
    [][\A i \in 1..Len(pagos) :
          /\ (last'.op = "confirmar_pago" /\ last'.pago = i)
             => IF pagos[i].estado = EN_PROCESO
                THEN /\ last'.raised = NoRaise
                     /\ pagos'[i].estado = COMPLETADO
                     /\ db'[pagos[i].pk].estado = COMPLETADO
                ELSE /\ last'.raised = "ValidationError"
                     /\ last'.error = InvalidTransition(pagos[i].estado, COMPLETADO)
                     /\ Untouched(i)
          /\ (last'.op = "cancelar_pago" /\ last'.pago = i)
             => IF pagos[i].estado \in {PENDIENTE, EN_PROCESO}
                THEN /\ last'.raised = NoRaise
                     /\ pagos'[i].estado = CANCELADO
                     /\ db'[pagos[i].pk].estado = CANCELADO
                ELSE /\ last'.raised = "ValidationError"
                     /\ last'.error = InvalidTransition(pagos[i].estado, CANCELADO)
                     /\ Untouched(i)]_vars

\* confirmar_pago was refused on a record cancelled while EN_PROCESO (its
\* row was written three times: insert, EN_PROCESO, CANCELADO).
C5_Witness ==
    /\ last.op = "confirmar_pago"
    /\ last.raised = "ValidationError"
    /\ pagos[last.pago].estado = CANCELADO
    /\ pagos[last.pago].updated_at >= pagos[last.pago].created_at + 2

\* C6: when the injected backend raises after procesar_pago moved the
\* record from PENDIENTE to EN_PROCESO, the error reaches the caller and
\* the record is EN_PROCESO on the instance and in the store; no later
\* step takes such a record back to PENDIENTE.
C6_NoReversalOnBackendFailure ==
    [][\A i \in 1..Len(pagos) :
          /\ (/\ last'.op = "procesar_pago"
              /\ last'.pago = i
              /\ last'.arg = ProcesadorQueFalla
              /\ pagos[i].estado = PENDIENTE)
             => /\ last'.raised = "ProcesadorError"
                /\ last'.resultado = <<>>
                /\ pagos'[i].estado = EN_PROCESO
                /\ db'[pagos[i].pk].estado = EN_PROCESO
                /\ i \in fallidos'
          /\ i \in fallidos'
             => /\ pagos'[i].estado # PENDIENTE
                /\ db'[pagos[i].pk].estado # PENDIENTE]_vars

\* The backend raised and the record is EN_PROCESO on both sides.
C6_Witness ==
    /\ last.op = "procesar_pago"
    /\ last.raised = "ProcesadorError"
    /\ last.pago \in fallidos
    /\ pagos[last.pago].estado = EN_PROCESO
    /\ Stored(last.pago) = EN_PROCESO

\* C7: a re-invoked procesar_pago evaluates the guard on the record's
\* current estado: it is refused exactly when the record is not PENDIENTE.
\* On a record whose backend call raised, it is refused with the
\* invalid-transition error without invoking the backend, and the only
\* changes such a record can still make are to COMPLETADO or CANCELADO,
\* by a call other than procesar_pago.
C7_FailedProcessingNotRetried ==
    [][\A i \in 1..Len(pagos) :
          /\ (last'.op = "procesar_pago" /\ last'.pago = i)
             => (last'.raised = "ValidationError" <=> pagos[i].estado # PENDIENTE)
          /\ (i \in fallidos /\ last'.op = "procesar_pago" /\ last'.pago = i)
             => /\ last'.raised = "ValidationError"
                /\ ~last'.llamado
                /\ Untouched(i)
          /\ (i \in fallidos /\ pagos'[i].estado # pagos[i].estado)
             => /\ pagos'[i].estado \in {COMPLETADO, CANCELADO}
                /\ last'.op # "procesar_pago"]_vars

\* procesar_pago was called again, and refused, on a record whose backend
\* call had raised.
C7_Witness ==
    /\ last.op = "procesar_pago"
    /\ last.pago \in fallidos
    /\ last.raised = "ValidationError"
    /\ ~last.llamado
    /\ pagos[last.pago].estado = EN_PROCESO

(***************************************************************************)
(* Properties of the builder, stated on the calls that were made           *)
(***************************************************************************)
\* The step is a call of op on the builder.
IsCall(op) ==
    /\ Len(historial') = Len(historial) + 1
    /\ historial'[Len(historial')].op = op

IsConMonto(c) == c.op = "con_monto"

\* The amount of a con_monto call is missing or does not parse.
Unparsable(c) == Decimal(str(c.monto)) = DecimalError

IsParsedMonto(c) == IsConMonto(c) /\ ~Unparsable(c)

\* A Decimal that is zero or negative.
NonPositive(d) ==
    \/ d.clase = "finito" /\ (d.sign = 1 \/ \A k \in 1..Len(d.digits) : d.digits[k] = 0)
    \/ d.clase = "F" /\ d.sign = 1

\* The call gave an amount that is missing, unparsable, zero or negative.
BadMonto(c) == Unparsable(c) \/ NonPositive(Decimal(str(c.monto)))

\* The call is one the builder rejects.
Rechazada(c) ==
    \/ c.op = "con_monto" /\ Unparsable(c)
    \/ c.op = "con_metodo_pago" /\ c.arg \notin {TARJETA, TRANSFERENCIA, EFECTIVO}

\* The message of a rejected call.
MsgDe(c) ==
    IF c.op = "con_monto" THEN Msg("Monto invalido", str(c.monto))
    ELSE Msg("Metodo de pago invalido", <<c.arg>>)

\* The message is that of a rejected call.
IsRejectionMsg(m) == m.texto \in {"Monto invalido", "Metodo de pago invalido"}

\* The messages of the rejected calls of a history, in call order.
Rechazados(h) ==
    LET r == SelectSeq(h, Rechazada) IN [k \in 1..Len(r) |-> MsgDe(r[k])]

\* The amount a history leaves in the builder: that of the last con_monto
\* call that parsed, None when there is none.
MontoEfectivo(h) ==
    LET ms == SelectSeq(h, IsParsedMonto)
    IN  IF ms = <<>> THEN DecimalNone ELSE Decimal(str(ms[Len(ms)].monto))

\* C8: when every amount given to the builder (none at all, or each
\* con_monto argument) is missing, unparsable, zero or negative, build
\* raises ValidationError and writes no record: the rows, the instances
\* and the clock are as before the call.
C8_BadAmountNotPersisted ==
    [][(/\ IsCall("build")
        /\ \A k \in 1..Len(historial) :
              IsConMonto(historial[k]) => BadMonto(historial[k]))
       => /\ last'.raised = "ValidationError"
          /\ last'.pago = 0
          /\ last'.escrituras = 0
          /\ db' = db
          /\ pagos' = pagos
          /\ reloj' = reloj]_vars

\* build(save=True) was refused for a negative amount, the only one given.
C8_Witness ==
    /\ Len(historial) >= 2
    /\ historial[Len(historial)] = Call("build", <<>>, "save")
    /\ last.raised = "ValidationError"
    /\ \E k \in 1..Len(historial) :
          IsConMonto(historial[k]) /\ Decimal(str(historial[k].monto)).sign = 1
    /\ \A k \in 1..Len(historial) :
          IsConMonto(historial[k]) => BadMonto(historial[k])
    /\ db = <<>>

\* C9: con_metodo_pago with a value outside {tarjeta, transferencia,
\* efectivo} appends an error to the builder, and every later build on
\* that builder raises ValidationError, whatever amounts were given and in
\* whatever order the calls were made.
C9_InvalidMethodBuildFails ==
    [][/\ (IsCall("con_metodo_pago") /\ Rechazada(historial'[Len(historial')]))
          => builder'._errors =
                Append(builder._errors, MsgDe(historial'[Len(historial')]))
       /\ (/\ IsCall("build")
           /\ \E k \in 1..Len(historial) :
                 historial[k].op = "con_metodo_pago" /\ Rechazada(historial[k]))
          => last'.raised = "ValidationError"]_vars

\* C10: the ValidationError that build raises carries the whole list: the
\* message of every rejected con_monto / con_metodo_pago call, in call
\* order, and last the final-validation message when the builder's amount
\* is missing or not positive; it is the builder's _errors list.
C10_ErrorCarriesAllMessages ==
    [][(IsCall("build") /\ last'.raised = "ValidationError")
       => LET err   == last'.error
              monto == MontoEfectivo(historial)
              final == monto = DecimalNone \/ NonPositive(monto)
          IN  /\ SelectSeq(err, IsRejectionMsg) = Rechazados(historial)
              /\ (Rechazados(historial) # <<>> \/ final)
                    => err = builder'._errors /\ err # <<>>
              /\ monto = DecimalNone => err[Len(err)] = MONTO_REQUERIDO
              /\ NonPositive(monto) => err[Len(err)] = MONTO_MAYOR_A_CERO
              /\ Len(err) >= Len(Rechazados(historial)) + (IF final THEN 1 ELSE 0)]_vars

\* build raised a ValidationError with the messages of two rejected calls
\* and the final-validation message.
C10_Witness ==
    /\ Len(historial) >= 3
    /\ historial[Len(historial)].op = "build"
    /\ last.raised = "ValidationError"
    /\ Len(Rechazados(historial)) = 2
    /\ Len(last.error) = 3

(***************************************************************************)
(* Properties of the records the service creates                           *)
(***************************************************************************)
\* A Decimal that is strictly greater than zero.
Positive(d) ==
    \/ d.clase = "finito" /\ d.sign = 0 /\ \E k \in 1..Len(d.digits) : d.digits[k] # 0
    \/ d.clase = "F" /\ d.sign = 0

RECURSIVE Normalize(_)
\* The same number with no trailing zero in the coefficient.
Normalize(d) ==
    IF d.clase = "finito" /\ Len(d.digits) > 1 /\ d.digits[Len(d.digits)] = 0
    THEN Normalize([d EXCEPT !.digits = SubSeq(@, 1, Len(@) - 1), !.exp = @ + 1])
    ELSE d

\* Two Decimals are the same number.
NumEq(d1, d2) == Normalize(d1) = Normalize(d2)

\* C11: the record a successful crear_pago returns is PENDIENTE, has the
\* method that was given (tarjeta when none was) and it is one of the three
\* choices, and has the amount that was given, strictly positive, on the
\* instance and in its row; afterwards every record keeps a strictly
\* positive amount whatever calls follow.
C11_CreatedRecordIsValid ==
    [][/\ (last'.op = "crear_pago" /\ last'.raised = NoRaise)
          => LET i    == last'.pago
                 pago == pagos'[i]
                 row  == db'[pago.pk]
                 dado == Decimal(str(last'.monto))
             IN  /\ i = Len(pagos) + 1
                 /\ pago.estado = PENDIENTE /\ row.estado = PENDIENTE
                 /\ pago.metodo_pago \in {TARJETA, TRANSFERENCIA, EFECTIVO}
                 /\ pago.metodo_pago =
                       (IF last'.arg = SinMetodo THEN TARJETA ELSE last'.arg)
                 /\ row.metodo_pago = pago.metodo_pago
                 /\ NumEq(pago.monto, dado) /\ NumEq(row.monto, dado)
                 /\ Positive(dado)
       /\ \A i \in 1..Len(pagos') :
             Positive(pagos'[i].monto) /\ Positive(db'[pagos'[i].pk].monto)]_vars

\* crear_pago without a method returned a PENDIENTE record paid by tarjeta.
C11_Witness ==
    /\ last.op = "crear_pago"
    /\ last.raised = NoRaise
    /\ last.arg = SinMetodo
    /\ pagos[last.pago].estado = PENDIENTE
    /\ pagos[last.pago].metodo_pago = TARJETA
    /\ Positive(pagos[last.pago].monto)

(***************************************************************************)
(* Properties of the factory and the backends                              *)
(***************************************************************************)
\* The flag value is REAL in any mix of upper and lower case.
IsRealAnyCase(env) ==
    /\ Len(env) = 4
    /\ env[1] \in {"R", "r"} /\ env[2] \in {"E", "e"}
    /\ env[3] \in {"A", "a"} /\ env[4] \in {"L", "l"}

\* C12 as claimed: crear returns the real backend when the flag is REAL and
\* the simulated backend for every other value of the flag, unset included.
C12_RealOnlyForREAL ==
    last.op = "crear"
    => (last.arg = ProcesadorPagoReal <=> last.env = <<"R", "E", "A", "L">>)

\* C12 as amended: crear returns the real backend when the flag is REAL in
\* any mix of upper and lower case, and the simulated backend for every
\* other value of the flag, unset included.
C12_RealForREALAnyCase ==
    last.op = "crear"
    => /\ last.arg \in {ProcesadorPagoReal, ProcesadorPagoMock}
       /\ last.arg = ProcesadorPagoReal <=> IsRealAnyCase(last.env)

\* crear returned the real backend for a flag written in lower case.
C12_Witness ==
    /\ last.op = "crear"
    /\ last.arg = ProcesadorPagoReal
    /\ last.env # <<"R", "E", "A", "L">>
    /\ last.env[1] = "r"

\* C13: for every record, the result of the simulated backend has status
\* 'simulated' and a transaction id that is the marker MOCK- followed by
\* TXN- and the record's referencia; the result of the real backend has
\* status 'approved' and a transaction id TXN- and the referencia, without
\* the marker; both have the same keys and exito = TRUE.
C13_BackendResults ==
    (last.op = "procesar_pago" /\ last.resultado # <<>>)
    => LET res  == last.resultado[1]
           gw   == res.gateway_response
           pago == pagos[last.pago]
       IN  /\ DOMAIN res = {"exito", "mensaje", "metodo", "procesador",
                            "gateway_response"}
           /\ DOMAIN gw = {"transaction_id", "status"}
           /\ res.exito = TRUE
           /\ res.metodo = pago.metodo_pago
           /\ res.mensaje.arg = <<pago.referencia>>
           /\ gw.transaction_id.referencia = pago.referencia
           /\ last.arg = ProcesadorPagoMock
                 => /\ gw.status = "simulated"
                    /\ gw.transaction_id.partes = <<"MOCK-", "TXN-">>
                    /\ res.procesador = "MOCK"
           /\ last.arg = ProcesadorPagoReal
                 => /\ gw.status = "approved"
                    /\ gw.transaction_id.partes = <<"TXN-">>
                    /\ res.procesador = "REAL"

\* The simulated backend returned a result for a record.
C13_Witness ==
    /\ last.op = "procesar_pago"
    /\ last.arg = ProcesadorPagoMock
    /\ last.resultado # <<>>
    /\ last.resultado[1].gateway_response.status = "simulated"

\* C14: _transicionar along each of the four edges succeeds, makes exactly
\* one store write that carries the new estado and the new updated_at
\* together, and the record's updated_at after the transition is strictly
\* greater than before it, on the instance and in its row (the clock is a
\* counter read at each write).
C14_ValidTransitionWritesBoth ==
    [][\A i \in 1..Len(pagos) :
          (/\ last'.op = "_transicionar"
           /\ last'.pago = i
           /\ <<pagos[i].estado, last'.arg>> \in Edges)
          => LET fila  == db[pagos[i].pk]
                 fila2 == db'[pagos[i].pk]
             IN  /\ last'.raised = NoRaise
                 /\ last'.escrituras = 1
                 /\ pagos'[i].estado = last'.arg
                 /\ fila2.estado = last'.arg
                 /\ pagos'[i].updated_at > pagos[i].updated_at
                 /\ fila2.updated_at > fila.updated_at
                 /\ fila2.updated_at = pagos'[i].updated_at
                 /\ fila2.updated_at = reloj'
                 /\ reloj' = reloj + 1]_vars

\* A record went PENDIENTE -> EN_PROCESO -> COMPLETADO by direct transitions
\* and its updated_at moved past its created_at twice.
C14_Witness ==
    /\ last.op = "_transicionar"
    /\ last.raised = NoRaise
    /\ last.arg = COMPLETADO
    /\ Stored(last.pago) = COMPLETADO
    /\ db[pagos[last.pago].pk].updated_at >= db[pagos[last.pago].pk].created_at + 2

\* C15: a procesar_pago request whose own instance is PENDIENTE passes the
\* guard, writes EN_PROCESO to the row and invokes the backend whatever the
\* stored estado has become since the instance was loaded - in particular
\* when another request loaded while the row was PENDIENTE has already
\* written EN_PROCESO and invoked the backend for the same record.
C15_BothConcurrentProcessSucceed ==
    [][\A i \in 1..Len(pagos) :
          (/\ last'.op = "procesar_pago"
           /\ last'.pago = i
           /\ pagos[i].estado = PENDIENTE)
          => /\ last'.raised = NoRaise
             /\ last'.escrituras = 1
             /\ last'.llamado
             /\ last'.resultado # <<>>
             /\ db'[pagos[i].pk].estado = EN_PROCESO
             /\ db'[pagos[i].pk].updated_at = reloj'
             /\ pagos'[i].estado = EN_PROCESO]_vars

\* Two instances of one row, both loaded while it was PENDIENTE, are both
\* EN_PROCESO by their own writes, and the second procesar_pago was invoked
\* on a row that the first had already moved to EN_PROCESO.
C15_Witness ==
    /\ last.op = "procesar_pago"
    /\ last.raised = NoRaise
    /\ last.llamado
    /\ last.resultado # <<>>
    /\ \E j \in 1..Len(pagos) :
          /\ j # last.pago
          /\ pagos[j].pk = pagos[last.pago].pk
          /\ pagos[j].estado = EN_PROCESO
          /\ pagos[j].updated_at > pagos[j].created_at
          /\ pagos[j].updated_at < pagos[last.pago].updated_at
          /\ pagos[j].updated_at + 1 = pagos[last.pago].updated_at

\* The fields of an instance or a row other than estado and updated_at
\* (pk is the row's index in db).
Frame(r) == <<r.referencia, r.monto, r.metodo_pago, r.created_at>>

\* C16: a record's referencia is assigned at construction and never
\* reassigned: every call leaves the referencia of every instance and row as
\* it was, and _transicionar, procesar_pago, confirmar_pago and cancelar_pago
\* leave referencia, monto, metodo_pago, pk and created_at of the instance
\* and of its row unchanged, add and remove no row, and change at most the
\* estado and updated_at of that one row.
C16_TransitionsWriteOnlyEstado ==
    [][/\ \A i \in 1..Len(pagos) :
             /\ pagos'[i].referencia = pagos[i].referencia
             /\ db'[pagos[i].pk].referencia = db[pagos[i].pk].referencia
       /\ last'.op \in {"_transicionar", "procesar_pago",
                        "confirmar_pago", "cancelar_pago"}
          => /\ Len(pagos') = Len(pagos)
             /\ Len(db') = Len(db)
             /\ \A i \in 1..Len(pagos) :
                   /\ pagos'[i].pk = pagos[i].pk
                   /\ Frame(pagos'[i]) = Frame(pagos[i])
                   /\ i # last'.pago => pagos'[i] = pagos[i]
             /\ \A pk \in 1..Len(db) :
                   /\ Frame(db'[pk]) = Frame(db[pk])
                   /\ pk # pagos[last'.pago].pk => db'[pk] = db[pk]
             /\ last'.escrituras = 1
                => /\ db'[pagos[last'.pago].pk].estado = pagos'[last'.pago].estado
                   /\ db'[pagos[last'.pago].pk].updated_at = pagos'[last'.pago].updated_at
             /\ last'.escrituras = 0 => db' = db]_vars

\* A record was processed and confirmed; its row kept its referencia and
\* created_at while the estado and updated_at were written twice.
C16_Witness ==
    /\ last.op = "confirmar_pago"
    /\ last.raised = NoRaise
    /\ last.escrituras = 1
    /\ db[pagos[last.pago].pk].referencia = pagos[last.pago].referencia
    /\ db[pagos[last.pago].pk].estado = COMPLETADO
    /\ db[pagos[last.pago].pk].updated_at = db[pagos[last.pago].pk].created_at + 2

\* The call is con_metodo_pago with a value of the allowed-method set.
IsValidMetodo(c) == c.op = "con_metodo_pago" /\ c.arg \in MetodoPago

\* The method a history leaves in the builder: that of the last
\* con_metodo_pago call with an allowed value, the default when there is none.
MetodoEfectivo(h) ==
    LET ms == SelectSeq(h, IsValidMetodo)
    IN  IF ms = <<>> THEN TARJETA ELSE ms[Len(ms)].arg

\* C17 as stated: after con_metodo_pago with a value outside the allowed
\* set, the builder's method is the default 'tarjeta', whatever calls came
\* before.
C17_InvalidMethodLeavesDefault ==
    [][(/\ IsCall("con_metodo_pago")
        /\ historial'[Len(historial')].arg \notin MetodoPago)
       => builder'._metodo_pago = TARJETA]_vars

\* C17, amended: con_metodo_pago with a value outside the allowed set
\* appends its message and leaves the builder's method and amount as they
\* were before the call: the method is that of the last earlier call with
\* an allowed value, and the default 'tarjeta' only when there was none.
C17_InvalidMethodLeavesMethodAsItWas ==
    [][(/\ IsCall("con_metodo_pago")
        /\ historial'[Len(historial')].arg \notin MetodoPago)
       => /\ builder'._metodo_pago = builder._metodo_pago
          /\ builder'._metodo_pago = MetodoEfectivo(historial)
          /\ builder'._monto = builder._monto
          /\ builder'._errors =
                Append(builder._errors, MsgDe(historial'[Len(historial')]))]_vars

\* An invalid value was given after 'efectivo' and the builder still holds
\* 'efectivo'.
C17_Witness ==
    /\ historial # <<>>
    /\ historial[Len(historial)].op = "con_metodo_pago"
    /\ historial[Len(historial)].arg = "bitcoin"
    /\ MetodoEfectivo(historial) = EFECTIVO
    /\ builder._metodo_pago = EFECTIVO

\* C18: under any interleaving of concurrent procesar, confirmar and cancelar
\* requests on one stored record, each with its own instance, the stored
\* estado changes only along the four edges and never leaves COMPLETADO or
\* CANCELADO.
C18_StoredStateOnlyAllowedEdges ==
    [][\A pk \in 1..Len(db) :
          /\ db'[pk].estado # db[pk].estado
                => <<db[pk].estado, db'[pk].estado>> \in Edges
          /\ db[pk].estado \in Terminal => db'[pk].estado = db[pk].estado]_vars

\* C19: the builder's error list only grows - every call leaves the
\* messages recorded so far in place, as a prefix of the list - and once the
\* list is not empty every later build raises and returns no record, writes
\* nothing and constructs no instance, even when a valid amount and a valid
\* method were supplied after the error.
C19_ErrorsOnlyGrow ==
    [][/\ Len(builder'._errors) >= Len(builder._errors)
       /\ SubSeq(builder'._errors, 1, Len(builder._errors)) = builder._errors
       /\ (IsCall("build") /\ builder._errors # <<>>)
          => /\ last'.raised # NoRaise
             /\ last'.pago = 0
             /\ last'.escrituras = 0
             /\ pagos' = pagos
             /\ db' = db
             /\ builder'._errors # <<>>]_vars

\* A rejected call, then a valid positive amount, then a valid method, then
\* build: it raised although the builder holds valid values for every field.
C19_Witness ==
    /\ Len(historial) = 4
    /\ Rechazada(historial[1])
    /\ IsParsedMonto(historial[2])
    /\ IsValidMetodo(historial[3])
    /\ historial[4].op = "build"
    /\ Positive(builder._monto)
    /\ builder._metodo_pago \in MetodoPago
    /\ last.op = "build"
    /\ last.raised = "ValidationError"
    /\ last.pago = 0

\* C20: in every sequence of crear_pago, procesar_pago, confirmar_pago and
\* cancelar_pago calls, a record is COMPLETADO only if an earlier
\* procesar_pago call on it moved it to EN_PROCESO and invoked the backend
\* on it, and no confirmar_pago or cancelar_pago call on a PENDIENTE record
\* leaves it COMPLETADO.
C20_CompletedOnlyAfterProcess ==
    [][\A i \in 1..Len(pagos') :
          /\ pagos'[i].estado = COMPLETADO => i \in procesados'
          /\ db'[pagos'[i].pk].estado = COMPLETADO => i \in procesados'
          /\ (/\ i <= Len(pagos)
              /\ pagos[i].estado = PENDIENTE
              /\ last'.op \in {"confirmar_pago", "cancelar_pago"})
             => /\ pagos'[i].estado # COMPLETADO
                /\ db'[pagos'[i].pk].estado # COMPLETADO
          /\ (i \in procesados' /\ i \notin procesados)
             => /\ last'.op = "procesar_pago"
                /\ last'.pago = i
                /\ last'.llamado
                /\ pagos[i].estado = PENDIENTE
                /\ pagos'[i].estado = EN_PROCESO
                /\ last'.visto = EN_PROCESO]_vars

\* A record that procesar_pago moved to EN_PROCESO and handed to the backend
\* was confirmed and is COMPLETADO.
C20_Witness ==
    /\ last.op = "confirmar_pago"
    /\ last.raised = NoRaise
    /\ pagos[last.pago].estado = COMPLETADO
    /\ Stored(last.pago) = COMPLETADO
    /\ last.pago \in procesados

\* C21: the guarded transition is the only path that writes a stored
\* record's estado after creation: every step that changes the estado of a
\* row is a _transicionar, procesar_pago, confirmar_pago or cancelar_pago
\* call on an instance of that row whose allowed-targets check passed for
\* the value written.
C21_OnlyGuardedWrites ==
    [][\A pk \in 1..Len(db) :
          db'[pk].estado # db[pk].estado
          => /\ last'.op \in {"_transicionar", "procesar_pago",
                              "confirmar_pago", "cancelar_pago"}
             /\ last'.pago \in 1..Len(pagos)
             /\ pagos[last'.pago].pk = pk
             /\ db'[pk].estado \in TRANSICIONES_VALIDAS(pagos[last'.pago].estado)]_vars

====
